---- MODULE Spec2Model ----
(***************************************************************************)
(* Record lifecycle of the KRC-ERP customisation layer: the Sales Order    *)
(* guard and template hook (sales_order.py), the Guest Onboarding          *)
(* controller and its cancel hooks (guest_onboarding.py), and the public   *)
(* endpoints for registration, sign-in, password reset and service         *)
(* booking (api.py).                                                       *)
(*                                                                         *)
(* Documents are named by positive integers; 0 stands for Python's None    *)
(* and for the empty string (both are falsy in the code's tests).          *)
(* docstatus is 0 (draft), 1 (submitted), 2 (cancelled).                   *)
(***************************************************************************)
EXTENDS Integers, FiniteSets, Sequences, TLC

VARIABLES
    db,      \* the record store: the tables of the lifecycle at hand
             \* ([so, go, tasks, templates, error_log] for orders and
             \* onboardings, [lead, user, outbox, ...] for accounts)
    prev,    \* the record store as it was before the last operation
    last,    \* the last operation: what was called, with which input, and
             \* what it answered
    req      \* booking requests in flight: request -> [pc, customer]

vars == <<db, prev, last, req>>

-----------------------------------------------------------------------------
(* Bounds *)

MaxOrders == 3          \* order names 1..MaxOrders in the order lifecycle
NumCustomers == 2       \* customers 1..NumCustomers
LinkOrders == 2         \* orders in the link lifecycle
LinkOnboardings == 1    \* onboardings in the link lifecycle
NumRequests == 2        \* concurrent booking requests
SaveOnboardings == 1    \* onboardings in the save-validation lifecycle
TemplateOrders == 1     \* orders in the template lifecycle
MaxItems == 2           \* line items of an order in the template lifecycle
AccountAddresses == 2   \* mail addresses in the registration lifecycle
AuthAddresses == 1      \* mail addresses in the sign-in and reset lifecycle
MaxTokens == 2          \* reset keys issued in the sign-in and reset lifecycle
BookingOrders == 1      \* order names 1..BookingOrders in the booking lifecycle
MaxAddresses == 1       \* addresses created in the booking lifecycle

None == 0
NoCustomer == 0
Customers == 1..NumCustomers

-----------------------------------------------------------------------------
(* Documents *)

\* The line items create_service_booking builds for one requested service.
BookedItems ==
    << [item_code |-> "ROOM", item_name |-> "Double Room",
        description |-> "Double Room for 2 Occupants"] >>

AbsentOrder ==
    [exists |-> FALSE, customer |-> NoCustomer, docstatus |-> 0,
     custom_guest_onboarding_id |-> None, items |-> << >>]

DraftOrder(c, g) ==
    [exists |-> TRUE, customer |-> c, docstatus |-> 0,
     custom_guest_onboarding_id |-> g, items |-> BookedItems]

NoFields ==
    [nationality |-> "India", id_proof_type |-> "Aadhaar",
     passport_number |-> "", visa_number |-> ""]

AbsentOnboarding ==
    [exists |-> FALSE, docstatus |-> 0, status |-> "Draft",
     reference_name |-> None, reference_doctype |-> "", fields |-> NoFields]

DraftOnboarding(o, dt, f) ==
    [exists |-> TRUE, docstatus |-> 0, status |-> "Draft",
     reference_name |-> o, reference_doctype |-> dt, fields |-> f]

Exists(tbl, n) == n \in DOMAIN tbl /\ tbl[n].exists

NoInput == [customer |-> NoCustomer, fields |-> NoFields]

Result(op, name, err, conflict, input) ==
    [op |-> op, name |-> name, err |-> err, conflict |-> conflict, input |-> input]

EmptyDb(orders, onboardings) ==
    [so |-> [o \in orders |-> AbsentOrder],
     go |-> [g \in onboardings |-> AbsentOnboarding],
     tasks |-> {}, templates |-> {}, error_log |-> {}]

NoRequests == [r \in {} |-> None]

\* A rollback of the transaction (frappe.db.rollback(), or the framework's
\* own when an error leaves the request): the writes made since the last
\* commit are dropped.
\* A plausible slip: they are kept (the request ends with a commit).
rollback_KeepsWrites(committed, working) == working

rollback(committed, working) == committed

-----------------------------------------------------------------------------
(* sales_order.py *)

\* The rows of the guard's SELECT: other non-cancelled orders of the customer.
existing_so(d, customer, current_name) ==
    {x \in DOMAIN d.so :
        /\ d.so[x].exists
        /\ d.so[x].customer = customer
        /\ d.so[x].docstatus < 2
        /\ x # current_name}

\* The guard's result for the rows its query returned: None when it returns
\* normally, else the order named in the error it throws (LIMIT 1 without
\* ORDER BY may return any one of the rows).
Outcome(rows) == IF rows = {} THEN {None} ELSE rows

\* A plausible slip: the query counts only drafts (docstatus < 1).
ensure_single_sales_order_DraftsOnly(d, customer, current_name) ==
    IF customer = NoCustomer THEN {None}
    ELSE Outcome({x \in existing_so(d, customer, current_name) : d.so[x].docstatus < 1})

\* A plausible slip: the query also counts cancelled orders (docstatus <= 2).
ensure_single_sales_order_CountsCancelled(d, customer, current_name) ==
    IF customer = NoCustomer THEN {None}
    ELSE Outcome({x \in DOMAIN d.so :
                    /\ d.so[x].exists /\ d.so[x].customer = customer
                    /\ x # current_name})

\* A plausible slip: the query forgets to exclude the document being saved.
ensure_single_sales_order_NoSelfExclusion(d, customer, current_name) ==
    IF customer = NoCustomer THEN {None}
    ELSE Outcome(existing_so(d, customer, None))

ensure_single_sales_order(d, customer, current_name) ==
    IF customer = NoCustomer THEN {None}
    ELSE Outcome(existing_so(d, customer, current_name))

TemplateName(o) == <<"Template", o>>

\* A plausible slip: the description is preferred to the item name.
Subject_DescriptionFirst(item) ==
    IF item.description # "" THEN item.description
    ELSE IF item.item_name # "" THEN item.item_name
    ELSE item.item_code

\* subject = item_name or description or item_code
Subject(item) ==
    IF item.item_name # "" THEN item.item_name
    ELSE IF item.description # "" THEN item.description
    ELSE item.item_code

\* The name task_doc.insert gives the Task made for line k of order o: the
\* store names every inserted Task afresh, so a Task made again for the same
\* line gets the next free name.
TaskName(d, o, k) ==
    <<o, k, 1 + Cardinality({t \in d.tasks : t.name[1] = o /\ t.name[2] = k})>>

TaskOf(d, o, k, item) ==
    [name |-> TaskName(d, o, k), subject |-> Subject(item),
     description |-> IF item.description # "" THEN item.description ELSE Subject(item)]

\* The template the handler inserts for order o: one row per line item, in
\* line order, each naming the Task made from that line.
TemplateOf(d, o) ==
    [name |-> TemplateName(o),
     tasks |-> [k \in 1..Len(d.so[o].items) |->
                  [task |-> TaskName(d, o, k),
                   subject |-> Subject(d.so[o].items[k])]]]

\* A plausible slip: the handler does not look for an existing template, and
\* makes the Tasks and the template rows again.
create_project_template_NoExistsCheck(d, o) ==
    IF d.so[o].docstatus # 1 THEN d
    ELSE IF d.so[o].items = << >> THEN d
    ELSE [d EXCEPT
            !.tasks = @ \cup {TaskOf(d, o, k, d.so[o].items[k]) : k \in 1..Len(d.so[o].items)},
            !.templates = {t \in @ : t.name # TemplateName(o)} \cup {TemplateOf(d, o)}]

create_project_template(d, o) ==
    IF d.so[o].docstatus # 1 THEN d
    ELSE IF \E t \in d.templates : t.name = TemplateName(o) THEN d
    ELSE IF d.so[o].items = << >> THEN d
    ELSE [d EXCEPT
            !.tasks = @ \cup {TaskOf(d, o, k, d.so[o].items[k]) : k \in 1..Len(d.so[o].items)},
            !.templates = @ \cup {TemplateOf(d, o)}]

-----------------------------------------------------------------------------
(* Order lifecycle *)

\* Inserting a draft order: the guard runs on the unsaved document (no name).
InsertOrder(o, c) ==
    /\ ~db.so[o].exists
    /\ \A x \in DOMAIN db.so : x < o => db.so[x].exists
    /\ \E hit \in ensure_single_sales_order(db, c, None) :
        IF hit # None
        THEN /\ db' = db
             /\ last' = Result("insert_order", o, "DuplicateActiveOrder", hit,
                               [NoInput EXCEPT !.customer = c])
        ELSE /\ db' = [db EXCEPT !.so[o] = DraftOrder(c, None)]
             /\ last' = Result("insert_order", o, "", None,
                               [NoInput EXCEPT !.customer = c])
    /\ prev' = db
    /\ UNCHANGED req

\* Updating a draft order, possibly with a changed customer.
SaveOrder(o, c) ==
    /\ db.so[o].exists
    /\ db.so[o].docstatus = 0
    /\ \E hit \in ensure_single_sales_order(db, c, o) :
        IF hit # None
        THEN /\ db' = db
             /\ last' = Result("save_order", o, "DuplicateActiveOrder", hit,
                               [NoInput EXCEPT !.customer = c])
        ELSE /\ db' = [db EXCEPT !.so[o].customer = c]
             /\ last' = Result("save_order", o, "", None,
                               [NoInput EXCEPT !.customer = c])
    /\ prev' = db
    /\ UNCHANGED req

\* The store after order o is submitted: docstatus 1, then the on_submit hook.
submit_order(d, o) ==
    create_project_template([d EXCEPT !.so[o].docstatus = 1], o)

SubmitOrder(o) ==
    /\ db.so[o].exists
    /\ db.so[o].docstatus = 0
    /\ db' = submit_order(db, o)
    /\ last' = Result("submit_order", o, "", None, NoInput)
    /\ prev' = db
    /\ UNCHANGED req

\* A plausible slip: the before-cancel hook clears the order's side only.
before_cancel_unlink_guest_onboarding_OrderSideOnly(d, o) ==
    LET g == d.so[o].custom_guest_onboarding_id IN
    IF g = None THEN d
    ELSE IF ~Exists(d.go, g) THEN d
    ELSE [d EXCEPT !.so[o].custom_guest_onboarding_id = None]

\* BEFORE cancel: break the link on both sides; a missing onboarding is ignored.
before_cancel_unlink_guest_onboarding(d, o) ==
    LET g == d.so[o].custom_guest_onboarding_id IN
    IF g = None THEN d
    ELSE IF ~Exists(d.go, g) THEN d
    ELSE [d EXCEPT !.go[g].reference_name = None,
                   !.go[g].reference_doctype = "",
                   !.so[o].custom_guest_onboarding_id = None]

\* ON cancel: the same unlink; a missing onboarding is logged.
on_cancel_unlink_guest_onboarding(d, o) ==
    LET g == d.so[o].custom_guest_onboarding_id IN
    IF g = None THEN d
    ELSE IF ~Exists(d.go, g)
         THEN [d EXCEPT !.error_log = @ \cup {<<"SO Cancel Unlink Error", o>>}]
    ELSE [d EXCEPT !.go[g].reference_name = None,
                   !.go[g].reference_doctype = "",
                   !.so[o].custom_guest_onboarding_id = None]

\* The store after order o is cancelled: before_cancel hook, docstatus 2,
\* on_cancel hook.
cancel_order(d, o) ==
    on_cancel_unlink_guest_onboarding(
        [before_cancel_unlink_guest_onboarding(d, o) EXCEPT !.so[o].docstatus = 2], o)

CancelOrder(o) ==
    /\ db.so[o].exists
    /\ db.so[o].docstatus = 1
    /\ db' = cancel_order(db, o)
    /\ last' = Result("cancel_order", o, "", None, NoInput)
    /\ prev' = db
    /\ UNCHANGED req

-----------------------------------------------------------------------------
(* guest_onboarding.py *)

\* str.lower() on the nationality spellings of the model.
Lower(s) ==
    CASE s = "India" -> "india"
      [] s = "INDIA" -> "india"
      [] s = "Indian" -> "indian"
      [] s = "INDIAN" -> "indian"
      [] s = "France" -> "france"
      [] OTHER -> s

\* A plausible slip: the nationality is compared without lower().
before_save_CaseSensitive(f) ==
    /\ f.nationality # ""
    /\ f.nationality # "india"
    /\ f.nationality # "indian"
    /\ f.id_proof_type = "Passport"
    /\ (f.passport_number = "" \/ f.visa_number = "")

\* TRUE when before_save throws the passport/visa validation error.
before_save(f) ==
    /\ f.nationality # ""
    /\ Lower(f.nationality) # "india"
    /\ Lower(f.nationality) # "indian"
    /\ f.id_proof_type = "Passport"
    /\ (f.passport_number = "" \/ f.visa_number = "")

\* TRUE when on_submit raises: the referenced Sales Order does not exist.
on_submit_raises(d, g) ==
    /\ d.go[g].reference_name # None
    /\ ~Exists(d.so, d.go[g].reference_name)

\* A plausible slip: on_submit submits the order whatever its docstatus.
on_submit_NoDocstatusCheck(d, g) ==
    LET d1 == [d EXCEPT !.go[g].status = "Onboarded"]
        o  == d.go[g].reference_name
    IN  IF o = None THEN d1 ELSE submit_order(d1, o)

\* The store after on_submit of onboarding g ran to completion.
on_submit(d, g) ==
    LET d1 == [d EXCEPT !.go[g].status = "Onboarded"]
        o  == d.go[g].reference_name
    IN  IF o = None THEN d1
        ELSE IF d1.so[o].docstatus = 0 THEN submit_order(d1, o)
        ELSE d1

\* A plausible slip: the before-cancel hook clears the onboarding's side only.
before_cancel_unlink_sales_order_OwnSideOnly(d, g) ==
    LET o == d.go[g].reference_name IN
    IF o = None \/ d.go[g].reference_doctype # "Sales Order" THEN d
    ELSE IF ~Exists(d.so, o) THEN d
    ELSE [d EXCEPT !.go[g].reference_name = None,
                   !.go[g].reference_doctype = ""]

\* A plausible slip: the before-cancel hook cancels the linked order as well.
before_cancel_unlink_sales_order_CancelsOrder(d, g) ==
    LET o == d.go[g].reference_name IN
    IF o = None \/ d.go[g].reference_doctype # "Sales Order" THEN d
    ELSE IF ~Exists(d.so, o) THEN d
    ELSE [d EXCEPT !.so[o].custom_guest_onboarding_id = None,
                   !.so[o].docstatus = 2,
                   !.go[g].reference_name = None,
                   !.go[g].reference_doctype = ""]

\* BEFORE cancel: break the link on both sides; a missing order is ignored.
before_cancel_unlink_sales_order(d, g) ==
    LET o == d.go[g].reference_name IN
    IF o = None \/ d.go[g].reference_doctype # "Sales Order" THEN d
    ELSE IF ~Exists(d.so, o) THEN d
    ELSE [d EXCEPT !.so[o].custom_guest_onboarding_id = None,
                   !.go[g].reference_name = None,
                   !.go[g].reference_doctype = ""]

\* A plausible slip: the on-cancel hook also puts the status back to Draft.
on_cancel_unlink_sales_order_ResetsStatus(d, g) ==
    LET o  == d.go[g].reference_name
        d1 == [d EXCEPT !.go[g].status = "Draft"]
    IN
    IF o = None \/ d.go[g].reference_doctype # "Sales Order" THEN d1
    ELSE IF ~Exists(d.so, o) THEN d1
    ELSE [d1 EXCEPT !.so[o].custom_guest_onboarding_id = None,
                    !.go[g].reference_name = None,
                    !.go[g].reference_doctype = ""]

\* ON cancel: the same unlink; a missing order is logged.
on_cancel_unlink_sales_order(d, g) ==
    LET o == d.go[g].reference_name IN
    IF o = None \/ d.go[g].reference_doctype # "Sales Order" THEN d
    ELSE IF ~Exists(d.so, o)
         THEN [d EXCEPT !.error_log = @ \cup {<<"Guest Onboarding Cancel Unlink Error", g>>}]
    ELSE [d EXCEPT !.so[o].custom_guest_onboarding_id = None,
                   !.go[g].reference_name = None,
                   !.go[g].reference_doctype = ""]

-----------------------------------------------------------------------------
(* Onboarding lifecycle *)

SaveOnboarding(g, f) ==
    /\ db.go[g].exists
    /\ db.go[g].docstatus = 0
    /\ IF before_save(f)
       THEN /\ db' = db
            /\ last' = Result("save_onboarding", g, "ValidationError", None,
                              [NoInput EXCEPT !.fields = f])
       ELSE /\ db' = [db EXCEPT !.go[g].fields = f]
            /\ last' = Result("save_onboarding", g, "", None,
                              [NoInput EXCEPT !.fields = f])
    /\ prev' = db
    /\ UNCHANGED req

\* Submitting a draft onboarding: docstatus 1, then on_submit.  An error
\* raised by on_submit, after it has written the status, leaves the submit
\* and the transaction is rolled back.
SubmitOnboarding(g) ==
    /\ db.go[g].exists
    /\ db.go[g].docstatus = 0
    /\ IF on_submit_raises(db, g)
       THEN /\ db' = rollback(db, [db EXCEPT !.go[g].docstatus = 1,
                                             !.go[g].status = "Onboarded"])
            /\ last' = Result("submit_onboarding", g, "DoesNotExistError", None, NoInput)
       ELSE /\ db' = on_submit([db EXCEPT !.go[g].docstatus = 1], g)
            /\ last' = Result("submit_onboarding", g, "", None, NoInput)
    /\ prev' = db
    /\ UNCHANGED req

\* The store after onboarding g is cancelled: before_cancel hook, docstatus 2,
\* on_cancel hook.
cancel_onboarding(d, g) ==
    on_cancel_unlink_sales_order(
        [before_cancel_unlink_sales_order(d, g) EXCEPT !.go[g].docstatus = 2], g)

CancelOnboarding(g) ==
    /\ db.go[g].exists
    /\ db.go[g].docstatus = 1
    /\ db' = cancel_onboarding(db, g)
    /\ last' = Result("cancel_onboarding", g, "", None, NoInput)
    /\ prev' = db
    /\ UNCHANGED req

-----------------------------------------------------------------------------
(* Specification of the order lifecycle: sequential insert, update, submit   *)
(* and cancel of orders, starting from an empty store.                       *)

Init ==
    /\ db = EmptyDb(1..MaxOrders, {})
    /\ prev = db
    /\ last = Result("init", None, "", None, NoInput)
    /\ req = NoRequests

Next ==
    \/ \E o \in 1..MaxOrders, c \in Customers \cup {NoCustomer} : InsertOrder(o, c)
    \/ \E o \in 1..MaxOrders, c \in Customers \cup {NoCustomer} : SaveOrder(o, c)
    \/ \E o \in 1..MaxOrders : SubmitOrder(o)
    \/ \E o \in 1..MaxOrders : CancelOrder(o)

Spec == Init /\ [][Next]_vars

-----------------------------------------------------------------------------
(* Specification of the link lifecycle: orders and onboardings that exist as *)
(* drafts with the link fields a user may have entered (mutual, one-sided,   *)
(* or naming a record that is absent), then saved, submitted and cancelled.  *)

InitLinks ==
    /\ \E os \in SUBSET (1..LinkOrders), gs \in SUBSET (1..LinkOnboardings),
          lk \in [1..LinkOrders -> {None} \cup (1..LinkOnboardings)],
          rn \in [1..LinkOnboardings -> {None} \cup (1..LinkOrders)],
          rd \in [1..LinkOnboardings -> {"", "Sales Order"}] :
          /\ \A o \in (1..LinkOrders) \ os : lk[o] = None
          /\ \A g \in 1..LinkOnboardings :
                (g \notin gs \/ rn[g] = None) => rd[g] = ""
          /\ db = [so |-> [o \in 1..LinkOrders |->
                             IF o \in os THEN DraftOrder(o, lk[o]) ELSE AbsentOrder],
                   go |-> [g \in 1..LinkOnboardings |->
                             IF g \in gs THEN DraftOnboarding(rn[g], rd[g], NoFields)
                             ELSE AbsentOnboarding],
                   tasks |-> {}, templates |-> {}, error_log |-> {}]
    /\ prev = db
    /\ last = Result("init", None, "", None, NoInput)
    /\ req = NoRequests

\* The two saves tried on an onboarding here: one that passes before_save,
\* one that it rejects.
LinkSaveFields ==
    {NoFields, [NoFields EXCEPT !.nationality = "France", !.id_proof_type = "Passport"]}

NextLinks ==
    \/ \E o \in 1..LinkOrders : SaveOrder(o, db.so[o].customer)
    \/ \E o \in 1..LinkOrders : SubmitOrder(o)
    \/ \E o \in 1..LinkOrders : CancelOrder(o)
    \/ \E g \in 1..LinkOnboardings, f \in LinkSaveFields : SaveOnboarding(g, f)
    \/ \E g \in 1..LinkOnboardings : SubmitOnboarding(g)
    \/ \E g \in 1..LinkOnboardings : CancelOnboarding(g)

SpecLinks == InitLinks /\ [][NextLinks]_vars

-----------------------------------------------------------------------------
(* Specification of the save validation: draft onboardings saved with every  *)
(* combination of the validated fields.                                      *)

Nationalities == {"", "India", "INDIAN", "France"}
IdProofTypes == {"Aadhaar", "Passport"}
Numbers == {"", "X1234"}

SaveFields ==
    [nationality : Nationalities, id_proof_type : IdProofTypes,
     passport_number : Numbers, visa_number : Numbers]

InitSave ==
    /\ db = [EmptyDb({}, 1..SaveOnboardings) EXCEPT
               !.go = [g \in 1..SaveOnboardings |-> DraftOnboarding(None, "", NoFields)]]
    /\ prev = db
    /\ last = Result("init", None, "", None, NoInput)
    /\ req = NoRequests

NextSave ==
    \E g \in 1..SaveOnboardings, f \in SaveFields : SaveOnboarding(g, f)

SpecSave == InitSave /\ [][NextSave]_vars

-----------------------------------------------------------------------------
(* api.py, create_service_booking: concurrent booking requests.  Each request *)
(* runs the guard's SELECT (inside sales_order.insert), then the INSERT in    *)
(* its own transaction, then frappe.db.commit(); db holds the committed rows  *)
(* only, which is what another request's SELECT reads.  req[r].seen records   *)
(* the committed orders at the time of r's SELECT.                            *)

Request(pc, c, seen) == [pc |-> pc, customer |-> c, seen |-> seen]

Committed(d) == {x \in DOMAIN d.so : d.so[x].exists}

BookingQuery(r) ==
    /\ req[r].pc = "start"
    /\ \E hit \in ensure_single_sales_order(db, req[r].customer, None) :
        IF hit # None
        THEN /\ req' = [req EXCEPT ![r].pc = "failed", ![r].seen = Committed(db)]
             /\ last' = Result("booking", r, "DuplicateActiveOrder", hit,
                               [NoInput EXCEPT !.customer = req[r].customer])
        ELSE /\ req' = [req EXCEPT ![r].pc = "checked", ![r].seen = Committed(db)]
             /\ last' = Result("booking_query", r, "", None,
                               [NoInput EXCEPT !.customer = req[r].customer])
    /\ prev' = db
    /\ db' = db

BookingInsert(r) ==
    /\ req[r].pc = "checked"
    /\ req' = [req EXCEPT ![r].pc = "inserted"]
    /\ last' = Result("booking_insert", r, "", None,
                      [NoInput EXCEPT !.customer = req[r].customer])
    /\ prev' = db
    /\ db' = db

BookingCommit(r) ==
    /\ req[r].pc = "inserted"
    /\ req' = [req EXCEPT ![r].pc = "done"]
    /\ db' = [db EXCEPT !.so[r] = DraftOrder(req[r].customer, None)]
    /\ last' = Result("booking", r, "", None,
                      [NoInput EXCEPT !.customer = req[r].customer])
    /\ prev' = db

InitRace ==
    /\ db = EmptyDb(1..NumRequests, {})
    /\ prev = db
    /\ last = Result("init", None, "", None, NoInput)
    /\ req \in [1..NumRequests -> {Request("start", c, {}) : c \in Customers}]

NextRace ==
    \/ \E r \in 1..NumRequests : BookingQuery(r)
    \/ \E r \in 1..NumRequests : BookingInsert(r)
    \/ \E r \in 1..NumRequests : BookingCommit(r)
    \/ \E o \in 1..NumRequests : SubmitOrder(o)
    \/ \E o \in 1..NumRequests : CancelOrder(o)

SpecRace == InitRace /\ [][NextRace]_vars

-----------------------------------------------------------------------------
(* Template lifecycle: orders with any line items, the on_submit handler    *)
(* triggered any number of times.                                           *)

\* Line items as the handler reads them: item_name and description may be
\* empty, item_code never is.
LineItems ==
    { [item_code |-> "ROOM", item_name |-> "Double Room", description |-> "Room for two"],
      [item_code |-> "MEAL", item_name |-> "", description |-> "Daily meals"],
      [item_code |-> "YOGA", item_name |-> "", description |-> ""] }

ItemLists == UNION {[1..n -> LineItems] : n \in 0..MaxItems}

\* The handler is called with order o as its document.
RunCreateProjectTemplate(o) ==
    /\ db.so[o].exists
    /\ db' = create_project_template(db, o)
    /\ last' = Result("create_project_template", o, "", None, NoInput)
    /\ prev' = db
    /\ UNCHANGED req

\* Draft orders with any line items; a template of an order's name may
\* already be in the store.
InitTemplate ==
    \E items \in [1..TemplateOrders -> ItemLists], named \in SUBSET (1..TemplateOrders) :
        /\ db = [EmptyDb(1..TemplateOrders, {}) EXCEPT
                   !.so = [o \in 1..TemplateOrders |->
                             [DraftOrder(o, None) EXCEPT !.items = items[o]]],
                   !.templates = {[name |-> TemplateName(o), tasks |-> << >>] : o \in named}]
        /\ prev = db
        /\ last = Result("init", None, "", None, NoInput)
        /\ req = NoRequests

NextTemplate ==
    \/ \E o \in 1..TemplateOrders : SubmitOrder(o)
    \/ \E o \in 1..TemplateOrders : CancelOrder(o)
    \/ \E o \in 1..TemplateOrders : RunCreateProjectTemplate(o)

SpecTemplate == InitTemplate /\ [][NextTemplate]_vars

-----------------------------------------------------------------------------
(* api.py: accounts.  An email string is the mail address it spells (0 for  *)
(* the empty string), whether it is written with upper-case letters,        *)
(* whether it has surrounding blanks, and whether it has the shape          *)
(* local@domain.tld.  A password is a string; "" is a missing one.          *)

Email(a, u, p, w) == [addr |-> a, upper |-> u, padded |-> p, wellformed |-> w]

EmptyEmail == Email(0, FALSE, FALSE, FALSE)

\* The spellings a caller may send for the addresses 1..n.
RawEmails(n) ==
    {Email(a, FALSE, FALSE, TRUE) : a \in 1..n}
        \cup {Email(a, TRUE, FALSE, TRUE) : a \in 1..n}
        \cup {Email(a, FALSE, TRUE, TRUE) : a \in 1..n}
        \cup {Email(1, FALSE, FALSE, FALSE), EmptyEmail}

\* str.strip()
strip(e) == [e EXCEPT !.padded = FALSE]

\* A plausible slip: the email is not lower-cased.
lower_Unchanged(e) == e

\* str.lower()
lower(e) == [e EXCEPT !.upper = FALSE]

\* re.match(email_pattern, email): letters of either case, no blanks.
email_pattern(e) == e.addr # 0 /\ e.wellformed /\ ~e.padded

Ok(message) == [success |-> TRUE, message |-> message]

Fail(error) == [success |-> FALSE, error |-> error]

\* The Lead and User tables, the mail sent, the number of reset keys issued
\* so far, and the reset keys that have changed a password so far.
EmptyStore == [lead |-> {}, user |-> {}, outbox |-> {}, issued |-> 0, redeemed |-> {}]

insert_lead(d, email) ==
    [d EXCEPT !.lead = @ \cup {[name |-> 1 + Cardinality(d.lead), email_id |-> email]}]

insert_user(d, email, password) ==
    [d EXCEPT !.user = @ \cup {[name |-> email, enabled |-> TRUE, password |-> password,
                                reset_password_key |-> None]}]

\* create_customer: the store and the response after the call.  fault names
\* the insert that raises, if any.
create_customer(d, data, fault) ==
    LET email == lower(strip(data.email))
        withLead == insert_lead(d, email)
        withUser == insert_user(withLead, email, data.password)
    IN  IF data.full_name = "" THEN [db |-> d, response |-> Fail("Full Name is required")]
        ELSE IF data.email.addr = 0 THEN [db |-> d, response |-> Fail("Email is required")]
        ELSE IF data.phone = "" THEN [db |-> d, response |-> Fail("Phone is required")]
        ELSE IF data.password = "" THEN [db |-> d, response |-> Fail("Password is required")]
        ELSE IF ~email_pattern(email)
             THEN [db |-> d, response |-> Fail("Invalid email format")]
        ELSE IF Len(data.password) < 6
             THEN [db |-> d, response |-> Fail("Password must be at least 6 characters long")]
        ELSE IF \E l \in d.lead : l.email_id = email
             THEN [db |-> d, response |-> Fail("A lead with this email already exists")]
        ELSE IF \E u \in d.user : u.name = email
             THEN [db |-> d, response |-> Fail("A user with this email already exists")]
        ELSE IF fault = "lead_insert"
             THEN [db |-> rollback(d, d), response |-> Fail("Failed to create account")]
        ELSE IF fault = "user_insert"
             THEN [db |-> rollback(d, withLead), response |-> Fail("Failed to create account")]
        ELSE [db |-> withUser, response |-> Ok("Account created successfully")]

Call(op, input, fault, response) ==
    [op |-> op, input |-> input, fault |-> fault, response |-> response]

AccountData ==
    [full_name : {"", "Asha Rao"}, email : RawEmails(AccountAddresses),
     phone : {"", "98450"}, password : {"", "abc", "secret1"}]

CreateAccount(data, fault) ==
    LET r == create_customer(db, data, fault) IN
    /\ db' = r.db
    /\ last' = Call("create_customer", data, fault, r.response)
    /\ prev' = db
    /\ UNCHANGED req

InitAccount ==
    /\ db = EmptyStore
    /\ prev = db
    /\ last = Call("init", None, "", Ok(""))
    /\ req = NoRequests

NextAccount ==
    \E data \in AccountData, fault \in {"", "lead_insert", "user_insert"} :
        CreateAccount(data, fault)

SpecAccount == InitAccount /\ [][NextAccount]_vars

-----------------------------------------------------------------------------
(* Two registrations at once.  Each create_customer request runs in its own *)
(* database transaction: its existence checks read the committed rows, its  *)
(* inserts stay in req[r].tx until frappe.db.commit(), and the request ends *)
(* with the framework's commit of whatever its transaction still holds.     *)
(* User.name is the primary key of the User table: an insert of a name that *)
(* another open transaction has inserted waits for that transaction, and an *)
(* insert of a committed name is rejected.  Lead names come from one naming *)
(* series, so no two Lead rows share a name.                                *)

RegRequests == 2

RegAddresses == 1

NoWrites == [lead |-> {}, user |-> {}]

Registration(pc, data, tx, passed, response) ==
    [pc |-> pc, data |-> data, tx |-> tx, passed |-> passed, response |-> response]

RegData(e) == [full_name |-> "Asha Rao", email |-> e, phone |-> "98450", password |-> "secret1"]

RegCall(op, r, response) ==
    [op |-> op, name |-> r, input |-> req[r].data, fault |-> "", response |-> response]

\* The committed rows together with the rows a transaction holds.
with_writes(d, tx) == [d EXCEPT !.lead = @ \cup tx.lead, !.user = @ \cup tx.user]

\* Every Lead row there is, committed or not: what the naming series has
\* handed out.
all_leads(d) == UNION ({d.lead} \cup {req[s].tx.lead : s \in DOMAIN req})

\* The validation and the two existence checks, against the committed rows.
RegCheck(r) ==
    LET checks == create_customer(db, req[r].data, "").response IN
    /\ req[r].pc = "start"
    /\ IF checks.success
       THEN /\ req' = [req EXCEPT ![r].pc = "checked", ![r].passed = TRUE]
            /\ last' = RegCall("create_customer_checks", r, Ok(""))
       ELSE /\ req' = [req EXCEPT ![r].pc = "failed", ![r].response = checks]
            /\ last' = RegCall("create_customer", r, checks)
    /\ prev' = db
    /\ db' = db

\* lead_doc.insert
RegInsertLead(r) ==
    LET email == lower(strip(req[r].data.email))
        named == insert_lead([db EXCEPT !.lead = all_leads(db)], email).lead \ all_leads(db)
    IN
    /\ req[r].pc = "checked"
    /\ req' = [req EXCEPT ![r].pc = "lead", ![r].tx.lead = @ \cup named]
    /\ last' = RegCall("create_customer_lead", r, Ok(""))
    /\ prev' = db
    /\ db' = db

\* user_doc.insert, and on a rejected insert the except clause and the end of
\* the request.
RegInsertUser(r) ==
    LET email == lower(strip(req[r].data.email))
        left == rollback(NoWrites, req[r].tx)
    IN
    /\ req[r].pc = "lead"
    /\ \A s \in DOMAIN req \ {r} : \A u \in req[s].tx.user : u.name # email
    /\ IF \E u \in db.user : u.name = email
       THEN /\ req' = [req EXCEPT ![r].pc = "failed", ![r].tx = NoWrites,
                                  ![r].response = Fail("Failed to create account")]
            /\ db' = with_writes(db, left)
            /\ last' = RegCall("create_customer", r, Fail("Failed to create account"))
       ELSE /\ req' = [req EXCEPT ![r].pc = "user",
                                  ![r].tx = [lead |-> @.lead,
                                             user |-> insert_user(EmptyStore, email,
                                                          req[r].data.password).user]]
            /\ db' = db
            /\ last' = RegCall("create_customer_user", r, Ok(""))
    /\ prev' = db

\* frappe.db.commit() and the success response
RegCommit(r) ==
    /\ req[r].pc = "user"
    /\ db' = with_writes(db, req[r].tx)
    /\ req' = [req EXCEPT ![r].pc = "done", ![r].tx = NoWrites,
                          ![r].response = Ok("Account created successfully")]
    /\ last' = RegCall("create_customer", r, Ok("Account created successfully"))
    /\ prev' = db

InitRegister ==
    /\ db = EmptyStore
    /\ prev = db
    /\ last = Call("init", None, "", Ok(""))
    /\ req \in [1..RegRequests ->
                  {Registration("start", RegData(e), NoWrites, FALSE, Ok("")) :
                       e \in RawEmails(RegAddresses)}]

NextRegister ==
    \/ \E r \in 1..RegRequests : RegCheck(r)
    \/ \E r \in 1..RegRequests : RegInsertLead(r)
    \/ \E r \in 1..RegRequests : RegInsertUser(r)
    \/ \E r \in 1..RegRequests : RegCommit(r)

SpecRegister == InitRegister /\ [][NextRegister]_vars

-----------------------------------------------------------------------------
(* api.py: sign-in and password reset *)

InvalidLogin == Fail("Invalid email or password")

AccountDisabled == Fail("Your account has been disabled. Please contact support.")

GenericResetResponse ==
    Ok("If this email is registered, you will receive a password reset link shortly.")

ResetLinkSent ==
    Ok("Password reset link has been sent to your email address. Please check your inbox.")

InvalidResetLink == Fail("Invalid or expired reset link")

\* An exception that leaves the endpoint: the caller gets the framework's
\* error page, and the framework rolls the request's transaction back.
Raised(error) == [success |-> FALSE, error |-> error, raised |-> TRUE]

\* login_customer: the enabled flag is read before the password is checked.
login_customer(d, email, password) ==
    LET name == lower(strip(email))
        users == {u \in d.user : u.name = name}
    IN  IF email.addr = 0 \/ password = "" THEN Fail("Email and password are required")
        ELSE IF users = {} THEN InvalidLogin
        ELSE IF \E u \in users : ~u.enabled THEN AccountDisabled
        ELSE IF \E u \in users : u.password # password THEN InvalidLogin
        ELSE [success |-> TRUE, message |-> "Login successful", user |-> name]

\* A plausible slip: a key already on the account is kept, and the new one
\* is only mailed.
forgot_password_KeepsFirstKey(d, email, fault) ==
    LET name == lower(strip(email))
        users == {u \in d.user : u.name = name}
        reset_key == d.issued + 1
        saved == [d EXCEPT !.issued = reset_key,
                           !.user = {IF u.name = name /\ u.reset_password_key = None
                                     THEN [u EXCEPT !.reset_password_key = reset_key]
                                     ELSE u : u \in @}]
    IN  IF email.addr = 0 THEN [db |-> d, response |-> Fail("Email is required")]
        ELSE IF ~email_pattern(name) THEN [db |-> d, response |-> Fail("Invalid email format")]
        ELSE IF users = {} THEN [db |-> d, response |-> GenericResetResponse]
        ELSE IF \E u \in users : ~u.enabled THEN [db |-> d, response |-> AccountDisabled]
        ELSE IF fault = "sendmail" THEN [db |-> saved, response |-> GenericResetResponse]
        ELSE [db |-> [saved EXCEPT !.outbox = @ \cup {[recipient |-> name, key |-> reset_key]}],
              response |-> ResetLinkSent]

\* forgot_password: the store and the response after the call.  The key is
\* saved and committed before the mail is sent; fault "sendmail" is a mail
\* server that refuses the message.
forgot_password(d, email, fault) ==
    LET name == lower(strip(email))
        users == {u \in d.user : u.name = name}
        reset_key == d.issued + 1
        saved == [d EXCEPT !.issued = reset_key,
                           !.user = {IF u.name = name
                                     THEN [u EXCEPT !.reset_password_key = reset_key]
                                     ELSE u : u \in @}]
    IN  IF email.addr = 0 THEN [db |-> d, response |-> Fail("Email is required")]
        ELSE IF ~email_pattern(name) THEN [db |-> d, response |-> Fail("Invalid email format")]
        ELSE IF users = {} THEN [db |-> d, response |-> GenericResetResponse]
        ELSE IF \E u \in users : ~u.enabled THEN [db |-> d, response |-> AccountDisabled]
        ELSE IF fault = "sendmail" THEN [db |-> saved, response |-> GenericResetResponse]
        ELSE [db |-> [saved EXCEPT !.outbox = @ \cup {[recipient |-> name, key |-> reset_key]}],
              response |-> ResetLinkSent]

\* A plausible slip: the redeemed key is left on the account.
reset_password_KeepsKey(d, key, new_password, fault) ==
    LET users == {u \in d.user : u.reset_password_key = key} IN
    IF key = None \/ new_password = ""
    THEN [db |-> d, response |-> Fail("Key and new password are required")]
    ELSE IF Len(new_password) < 6
         THEN [db |-> d, response |-> Fail("Password must be at least 6 characters long")]
    ELSE IF users = {} THEN [db |-> d, response |-> InvalidResetLink]
    ELSE IF fault = "update_password"
         THEN [db |-> rollback(d, d), response |-> Raised("update_password")]
    ELSE LET user == CHOOSE u \in users : TRUE IN
         [db |-> [d EXCEPT !.user = (@ \ {user}) \cup
                        {[user EXCEPT !.password = new_password]}],
          response |-> Ok("Password has been reset successfully")]

\* reset_password: the store and the response after the call.  There is no
\* try/except: fault "update_password" is a store failure in update_password,
\* which leaves the function as an exception.
reset_password(d, key, new_password, fault) ==
    LET users == {u \in d.user : u.reset_password_key = key} IN
    IF key = None \/ new_password = ""
    THEN [db |-> d, response |-> Fail("Key and new password are required")]
    ELSE IF Len(new_password) < 6
         THEN [db |-> d, response |-> Fail("Password must be at least 6 characters long")]
    ELSE IF users = {} THEN [db |-> d, response |-> InvalidResetLink]
    ELSE IF fault = "update_password"
         THEN [db |-> rollback(d, d), response |-> Raised("update_password")]
    ELSE LET user == CHOOSE u \in users : TRUE IN
         [db |-> [d EXCEPT !.user = (@ \ {user}) \cup
                        {[user EXCEPT !.password = new_password,
                                      !.reset_password_key = None]}],
          response |-> Ok("Password has been reset successfully")]

Login(email, password) ==
    /\ db' = db
    /\ last' = Call("login_customer", [email |-> email, password |-> password], "",
                    login_customer(db, email, password))
    /\ prev' = db
    /\ UNCHANGED req

ForgotPassword(email, fault) ==
    LET r == forgot_password(db, email, fault) IN
    /\ r.db.issued <= MaxTokens
    /\ db' = r.db
    /\ last' = Call("forgot_password", [email |-> email], fault, r.response)
    /\ prev' = db
    /\ UNCHANGED req

ResetPassword(key, new_password, fault) ==
    LET r == reset_password(db, key, new_password, fault) IN
    /\ db' = IF r.response.success THEN [r.db EXCEPT !.redeemed = @ \cup {key}] ELSE r.db
    /\ last' = Call("reset_password", [key |-> key, new_password |-> new_password], fault,
                    r.response)
    /\ prev' = db
    /\ UNCHANGED req

\* Accounts registered earlier with password "secret1"; some were disabled
\* since.
InitAuth ==
    \E registered \in SUBSET (1..AuthAddresses) : \E disabled \in SUBSET registered :
        /\ db = [EmptyStore EXCEPT
                   !.lead = {[name |-> a, email_id |-> Email(a, FALSE, FALSE, TRUE)] :
                                a \in registered},
                   !.user = {[name |-> Email(a, FALSE, FALSE, TRUE),
                              enabled |-> a \notin disabled,
                              password |-> "secret1",
                              reset_password_key |-> None] : a \in registered}]
        /\ prev = db
        /\ last = Call("init", None, "", Ok(""))
        /\ req = NoRequests

NextAuth ==
    \/ \E email \in RawEmails(AuthAddresses), password \in {"", "secret1", "secret2"} :
          Login(email, password)
    \/ \E email \in RawEmails(AuthAddresses), fault \in {"", "sendmail"} :
          ForgotPassword(email, fault)
    \/ \E key \in 0..MaxTokens, new_password \in {"", "abc", "secret1", "secret2"},
          fault \in {"", "update_password"} :
          ResetPassword(key, new_password, fault)

SpecAuth == InitAuth /\ [][NextAuth]_vars

-----------------------------------------------------------------------------
(* api.py: create_service_booking *)

Date(y, m, d) == [y |-> y, m |-> m, d |-> d]

\* The date strings a caller may send; "" is a missing date and "22.11." is
\* not a date.
DateStrings ==
    {"2024-02-28", "2024-03-01", "2024-12-31", "2025-01-01",
     "2025-02-28", "2025-03-01", "2025-11-22", "2025-11-24"}

\* getdate(string)
getdate(s) ==
    CASE s = "2024-02-28" -> Date(2024, 2, 28)
      [] s = "2024-03-01" -> Date(2024, 3, 1)
      [] s = "2024-12-31" -> Date(2024, 12, 31)
      [] s = "2025-01-01" -> Date(2025, 1, 1)
      [] s = "2025-02-28" -> Date(2025, 2, 28)
      [] s = "2025-03-01" -> Date(2025, 3, 1)
      [] s = "2025-11-22" -> Date(2025, 11, 22)
      [] s = "2025-11-24" -> Date(2025, 11, 24)

\* datetime.date: a < b
date_less(a, b) ==
    \/ a.y < b.y
    \/ a.y = b.y /\ a.m < b.m
    \/ a.y = b.y /\ a.m = b.m /\ a.d < b.d

is_leap(y) == y % 4 = 0 /\ (y % 100 # 0 \/ y % 400 = 0)

days_before_month(y, m) ==
    <<0, 31, 59, 90, 120, 151, 181, 212, 243, 273, 304, 334>>[m]
        + (IF m > 2 /\ is_leap(y) THEN 1 ELSE 0)

\* datetime.date.toordinal(): days since 0001-01-01, counted from 1
toordinal(dt) ==
    (dt.y - 1) * 365 + (dt.y - 1) \div 4 - (dt.y - 1) \div 100 + (dt.y - 1) \div 400
        + days_before_month(dt.y, dt.m) + dt.d

\* date_diff(a, b) = (a - b).days
date_diff(a, b) == toordinal(a) - toordinal(b)

\* A plausible slip: the stay is counted without its last day.
calculated_days_Exclusive(from_date, to_date) ==
    IF date_diff(to_date, from_date) < 1 THEN 1 ELSE date_diff(to_date, from_date)

\* calculated_days = date_diff(to_date, from_date) + 1, at least 1
calculated_days(from_date, to_date) ==
    IF date_diff(to_date, from_date) + 1 < 1 THEN 1 ELSE date_diff(to_date, from_date) + 1

\* The Item table: item_name and standard_rate of each service.
Items ==
    [ROOM |-> [item_name |-> "Double Room", standard_rate |-> 2500],
     MEAL |-> [item_name |-> "Meals", standard_rate |-> 0]]

\* The Item Price table of the selling price list.
ItemPrice == [MEAL |-> 400]

item_rate(item_code) ==
    IF Items[item_code].standard_rate # 0 THEN Items[item_code].standard_rate
    ELSE IF item_code \in DOMAIN ItemPrice THEN ItemPrice[item_code]
    ELSE 0

\* A plausible slip: the quantity of a line is the number of people.
sales_order_items_QtyPeople(item_codes, days, number_of_people, from_date, to_date) ==
    [k \in 1..Len(item_codes) |->
        [item_code |-> item_codes[k],
         item_name |-> Items[item_codes[k]].item_name,
         description |-> <<Items[item_codes[k]].item_name, number_of_people, from_date, to_date>>,
         qty |-> number_of_people,
         rate |-> item_rate(item_codes[k])]]

\* One line per requested item code, in request order.
sales_order_items(item_codes, days, number_of_people, from_date, to_date) ==
    [k \in 1..Len(item_codes) |->
        [item_code |-> item_codes[k],
         item_name |-> Items[item_codes[k]].item_name,
         description |-> <<Items[item_codes[k]].item_name, number_of_people, from_date, to_date>>,
         qty |-> days,
         rate |-> item_rate(item_codes[k])]]

BookingOutcome(d, response, days) == [db |-> d, response |-> response, days |-> days]

\* The names the store can still give a new order / a new address.
FreeOrderNames(d) == {x \in DOMAIN d.so : ~d.so[x].exists /\ \A y \in DOMAIN d.so : y < x => d.so[y].exists}

FreeAddressNames(d) == {n \in 1..MaxAddresses : n = 1 + Cardinality(d.address)}

\* create_service_booking from the customer lookup on: the possible stores
\* and responses after the call.  The Address insert is followed by a commit;
\* a return without rollback leaves the uncommitted writes to the end of the
\* request, which commits or rolls back depending on the HTTP method.
book_for_user(d, data, fault, from_date, to_date, days) ==
    LET existing == {c \in d.customer : c.email_id = data.user_email}
        customer_name == IF existing # {} THEN (CHOOSE c \in existing : TRUE).name
                         ELSE 1 + Cardinality(d.customer)
        withCustomer == IF existing # {} THEN d
                        ELSE [d EXCEPT !.customer = @ \cup
                                 {[name |-> customer_name, email_id |-> data.user_email]}]
        addressInserted == data.address_data = "complete" /\ fault # "address_insert"
        address_name == IF addressInserted THEN 1 + Cardinality(d.address) ELSE None
        withAddress == IF addressInserted
                       THEN [withCustomer EXCEPT !.address = @ \cup
                                {[name |-> address_name, customer |-> customer_name]}]
                       ELSE withCustomer
        committed == IF addressInserted THEN withAddress ELSE d
        lines == sales_order_items(data.item_codes, days, data.number_of_people,
                                   from_date, to_date)
    IN  IF addressInserted /\ FreeAddressNames(d) = {} THEN {}
        ELSE IF \E k \in 1..Len(data.item_codes) : data.item_codes[k] \notin DOMAIN Items
             THEN {BookingOutcome(end, Fail("Service item not found"), days) :
                      end \in {committed, withAddress}}
        ELSE IF ensure_single_sales_order(withAddress, customer_name, None) # {None}
             THEN {BookingOutcome(rollback(committed, withAddress), Fail("DuplicateActiveOrder"), days)}
        ELSE IF fault = "order_insert"
             THEN {BookingOutcome(rollback(committed, withAddress),
                            Fail("Failed to create service booking"), days)}
        ELSE {BookingOutcome([withAddress EXCEPT !.so[o] =
                            [DraftOrder(customer_name, None) EXCEPT !.items = lines]
                                @@ [delivery_date |-> from_date,
                                    shipping_address_name |-> address_name]],
                       [success |-> TRUE, message |-> "Service booking created successfully",
                        sales_order |-> o, customer |-> customer_name],
                       days) : o \in FreeOrderNames(d)}

\* create_service_booking: validation, then the writes.
create_service_booking(d, data, fault) ==
    IF data.item_codes = << >>
    THEN {BookingOutcome(d, Fail("At least one service item is required"), None)}
    ELSE IF data.from_date = "" THEN {BookingOutcome(d, Fail("From Date is required"), None)}
    ELSE IF data.to_date = "" THEN {BookingOutcome(d, Fail("To Date is required"), None)}
    ELSE IF data.number_of_people = 0
         THEN {BookingOutcome(d, Fail("Number Of People is required"), None)}
    ELSE IF data.from_date \notin DateStrings \/ data.to_date \notin DateStrings
         THEN {BookingOutcome(d, Fail("Invalid date format"), None)}
    ELSE LET from_date == getdate(data.from_date)
             to_date == getdate(data.to_date)
             days == calculated_days(from_date, to_date)
         IN  IF date_less(to_date, from_date)
             THEN {BookingOutcome(d, Fail("To Date must be after or equal to From Date"), None)}
             ELSE IF data.user_email = EmptyEmail
                  THEN {BookingOutcome(d, Fail("Authentication required. Please log in to book a service."),
                                 days)}
             ELSE IF ~\E u \in d.user : u.name = data.user_email
                  THEN {BookingOutcome(d, Fail("User account not found. Please contact support."), days)}
             ELSE book_for_user(d, data, fault, from_date, to_date, days)

CreateBooking(data, fault) ==
    \E r \in create_service_booking(db, data, fault) :
        /\ db' = r.db
        /\ last' = [op |-> "create_service_booking", input |-> data, fault |-> fault,
                    response |-> r.response, days |-> r.days]
        /\ prev' = db
        /\ UNCHANGED req

\* The email of the registered caller and an email without an account.
BookingUser == Email(1, FALSE, FALSE, TRUE)

Stranger == Email(2, FALSE, FALSE, TRUE)

\* One account, no customer, no address, no order.
InitBooking ==
    /\ db = [user |-> {[name |-> BookingUser, enabled |-> TRUE, password |-> "secret1",
                        reset_password_key |-> None]},
             customer |-> {}, address |-> {}] @@ EmptyDb(1..BookingOrders, {})
    /\ prev = db
    /\ last = [op |-> "init", input |-> None, fault |-> "", response |-> Ok(""), days |-> None]
    /\ req = NoRequests

BookingData ==
    [item_codes : {<< >>, <<"ROOM">>, <<"MEAL", "ROOM">>, <<"ROOM", "GOLF">>},
     from_date : {"2025-11-22"},
     to_date : {"2025-11-24", "2025-03-01"},
     number_of_people : {0, 2},
     user_email : {EmptyEmail, BookingUser, Stranger},
     address_data : {"", "incomplete", "complete"}]

NextBooking ==
    \E data \in BookingData, fault \in {"", "address_insert", "order_insert"} :
        CreateBooking(data, fault)

SpecBooking == InitBooking /\ [][NextBooking]_vars

\* Bookings of one room by the registered caller over all pairs of dates.
StayData ==
    [item_codes : {<<"ROOM">>},
     from_date : DateStrings \cup {"", "22.11."},
     to_date : DateStrings \cup {"", "22.11."},
     number_of_people : {2},
     user_email : {BookingUser},
     address_data : {""}]

NextStay == \E data \in StayData : CreateBooking(data, "")

SpecStay == InitBooking /\ [][NextStay]_vars

-----------------------------------------------------------------------------
(* Properties *)

ActiveOrders(d, c) ==
    {o \in DOMAIN d.so : d.so[o].exists /\ d.so[o].customer = c /\ d.so[o].docstatus \in {0, 1}}

\* C1: after any sequential series of order inserts, updates (including a
\* changed customer), submits and cancels, each insert and update guarded by
\* ensure_single_sales_order, every customer has at most one order with
\* docstatus < 2.
C1_SingleActiveOrderPerCustomer ==
    \A c \in Customers : Cardinality(ActiveOrders(db, c)) <= 1

\* C1 witness: an update moved a draft order to another customer, who already
\* has a cancelled order.
C1_Witness ==
    /\ last.op = "save_order" /\ last.err = ""
    /\ last.input.customer \in Customers
    /\ prev.so[last.name].customer \in Customers \ {last.input.customer}
    /\ \E x \in DOMAIN db.so :
          /\ x # last.name /\ db.so[x].exists
          /\ db.so[x].customer = last.input.customer /\ db.so[x].docstatus = 2

\* The other orders of the customer given to the last insert or update that
\* were draft or submitted before it ran.
OtherActiveBefore ==
    {x \in DOMAIN prev.so :
        /\ prev.so[x].exists /\ x # last.name
        /\ prev.so[x].customer = last.input.customer
        /\ prev.so[x].docstatus \in {0, 1}}

\* C2: an insert or update of an order with a non-empty customer fails with
\* DuplicateActiveOrder, naming a conflicting order, exactly when another
\* order of that customer has docstatus < 2; a failed operation leaves the
\* orders unchanged; re-saving the customer's only active order is accepted.
C2_GuardRejectsExactlyOnConflict ==
    (last.op \in {"insert_order", "save_order"} /\ last.input.customer # NoCustomer) =>
        /\ (last.err = "DuplicateActiveOrder") <=> (OtherActiveBefore # {})
        /\ (last.err = "DuplicateActiveOrder") => (last.conflict \in OtherActiveBefore /\ db = prev)
        /\ (last.err # "DuplicateActiveOrder") =>
              (last.err = "" /\ db.so[last.name].exists
                /\ db.so[last.name].customer = last.input.customer)

\* C2 witness: the customer's only active order was re-saved and accepted.
C2_Witness ==
    /\ last.op = "save_order" /\ last.err = ""
    /\ last.input.customer \in Customers
    /\ prev.so[last.name].customer = last.input.customer
    /\ ActiveOrders(prev, last.input.customer) = {last.name}

\* C2 witness of the rejection: an update to a customer who has another
\* active order was rejected.
C2_RejectedWitness ==
    /\ last.op = "save_order" /\ last.err = "DuplicateActiveOrder"
    /\ last.conflict # last.name

\* C3: a cancelled order stays cancelled, and an insert for a customer whose
\* orders are all cancelled passes the guard.
C3_CancelIsTerminalAndReleasesSlot ==
    /\ \A o \in DOMAIN prev.so :
          (prev.so[o].exists /\ prev.so[o].docstatus = 2) =>
              (db.so[o].exists /\ db.so[o].docstatus = 2)
    /\ (/\ last.op = "insert_order"
        /\ last.input.customer \in Customers
        /\ \A x \in DOMAIN prev.so :
              (prev.so[x].exists /\ prev.so[x].customer = last.input.customer)
                  => prev.so[x].docstatus = 2)
       => (/\ last.err = ""
           /\ db.so[last.name] = DraftOrder(last.input.customer, None))

\* C3 witness: an order was inserted for a customer whose previous order had
\* been cancelled.
C3_Witness ==
    /\ last.op = "insert_order" /\ last.err = ""
    /\ last.input.customer \in Customers
    /\ \E x \in DOMAIN prev.so :
          /\ prev.so[x].exists /\ prev.so[x].customer = last.input.customer
          /\ prev.so[x].docstatus = 2
    /\ ActiveOrders(db, last.input.customer) = {last.name}

\* C4: two non-cancelled orders of one customer arise from concurrent
\* bookings, and only when each request ran its query before the other's
\* insert was committed.
C4_DoubleOrderOnlyByInterleaving ==
    \A r1, r2 \in DOMAIN req :
        (/\ r1 # r2
         /\ r1 \in ActiveOrders(db, req[r1].customer)
         /\ r2 \in ActiveOrders(db, req[r1].customer))
        => (r1 \notin req[r2].seen /\ r2 \notin req[r1].seen)

\* C4 witness: two committed, non-cancelled orders of the same customer.
C4_Witness ==
    \E c \in Customers : Cardinality(ActiveOrders(db, c)) >= 2

\* C5: after cancelling an order whose custom_guest_onboarding_id names an
\* existing onboarding, the order's custom_guest_onboarding_id is empty and
\* that onboarding's reference_name and reference_doctype are empty.
C5_OrderCancelClearsBothSides ==
    (/\ last.op = "cancel_order"
     /\ prev.so[last.name].custom_guest_onboarding_id # None
     /\ Exists(prev.go, prev.so[last.name].custom_guest_onboarding_id))
    => (/\ db.so[last.name].docstatus = 2
        /\ db.so[last.name].custom_guest_onboarding_id = None
        /\ db.go[prev.so[last.name].custom_guest_onboarding_id].reference_name = None
        /\ db.go[prev.so[last.name].custom_guest_onboarding_id].reference_doctype = "")

\* C5 witness: a submitted order linked both ways to a submitted onboarding
\* was cancelled.
C5_Witness ==
    /\ last.op = "cancel_order"
    /\ prev.so[last.name].custom_guest_onboarding_id # None
    /\ Exists(prev.go, prev.so[last.name].custom_guest_onboarding_id)
    /\ prev.go[prev.so[last.name].custom_guest_onboarding_id].reference_name = last.name
    /\ prev.go[prev.so[last.name].custom_guest_onboarding_id].docstatus = 1

\* C6: after cancelling an onboarding whose reference_name names an order,
\* the onboarding's reference_name and reference_doctype are empty and that
\* order's custom_guest_onboarding_id is empty, whatever reference_doctype
\* the onboarding carried.
C6_OnboardingCancelClearsBothSides ==
    (/\ last.op = "cancel_onboarding"
     /\ prev.go[last.name].reference_name # None
     /\ Exists(prev.so, prev.go[last.name].reference_name))
    => (/\ db.go[last.name].reference_name = None
        /\ db.go[last.name].reference_doctype = ""
        /\ db.so[prev.go[last.name].reference_name].custom_guest_onboarding_id = None)

\* The two sides of every link agree: G.reference_name = O exactly when
\* O.custom_guest_onboarding_id = G.
Agree(d) ==
    \A g \in DOMAIN d.go, o \in DOMAIN d.so :
        (d.go[g].exists /\ d.so[o].exists) =>
            ((d.go[g].reference_name = o) <=> (d.so[o].custom_guest_onboarding_id = g))

\* C7: an operation that starts in a state where the two sides of every link
\* agree ends in one where they agree.
C7_LinkAgreementPreserved ==
    Agree(prev) => Agree(db)

\* C7 witness: from an agreeing state, cancelling a mutually linked onboarding
\* cleared the link.
C7_Witness ==
    /\ last.op = "cancel_onboarding"
    /\ Agree(prev)
    /\ prev.go[last.name].reference_name # None
    /\ Exists(prev.so, prev.go[last.name].reference_name)
    /\ db.go[last.name].reference_name = None

\* C8: a completed onboarding submit leaves the status Onboarded; a referenced
\* order that was a draft is submitted, one that was submitted or cancelled
\* keeps its docstatus.
C8_SubmitPromotesAndSubmitsDraftOrder ==
    (last.op = "submit_onboarding" /\ last.err = "") =>
        /\ db.go[last.name].status = "Onboarded"
        /\ db.go[last.name].docstatus = 1
        /\ \A o \in DOMAIN prev.so :
              (prev.go[last.name].reference_name = o /\ prev.so[o].exists) =>
                  db.so[o].docstatus = IF prev.so[o].docstatus = 0 THEN 1
                                       ELSE prev.so[o].docstatus

\* C8 witness: the submit of an onboarding submitted its draft order.
C8_Witness ==
    /\ last.op = "submit_onboarding" /\ last.err = ""
    /\ Exists(prev.so, prev.go[last.name].reference_name)
    /\ prev.so[prev.go[last.name].reference_name].docstatus = 0
    /\ db.so[prev.go[last.name].reference_name].docstatus = 1

\* C8 witness of the other case: the referenced order was already cancelled.
C8_CancelledOrderWitness ==
    /\ last.op = "submit_onboarding" /\ last.err = ""
    /\ Exists(prev.so, prev.go[last.name].reference_name)
    /\ prev.so[prev.go[last.name].reference_name].docstatus = 2

\* C9: no operation puts the status of an onboarding back from Onboarded to
\* Draft.
C9_StatusNeverReverts ==
    \A g \in DOMAIN prev.go :
        (prev.go[g].exists /\ prev.go[g].status = "Onboarded") =>
            (db.go[g].exists /\ db.go[g].status = "Onboarded")

\* C9 witness: an Onboarded onboarding was cancelled.
C9_Witness ==
    /\ last.op = "cancel_onboarding"
    /\ prev.go[last.name].status = "Onboarded"
    /\ db.go[last.name].docstatus = 2

\* The spellings of the model that equal 'india' or 'indian' when compared
\* case-insensitively.
IndianSpellings == {"India", "INDIAN", "indian"}

\* The save the claim says is rejected.
MustReject(f) ==
    /\ f.nationality # ""
    /\ f.nationality \notin IndianSpellings
    /\ f.id_proof_type = "Passport"
    /\ (f.passport_number = "" \/ f.visa_number = "")

C10_AcceptedWitness ==
    /\ last.op = "save_onboarding" /\ last.err = ""
    /\ last.input.fields.nationality = "INDIAN"
    /\ last.input.fields.id_proof_type = "Passport"
    /\ last.input.fields.passport_number = ""

-----------------------------------------------------------------------------
(* Task templates *)

TemplatesNamed(d, o) == {t \in d.templates : t.name = TemplateName(o)}

\* The last operation ran the on_submit handler on a submitted order.
HandlerRanOnSubmitted ==
    /\ last.op \in {"submit_order", "create_project_template"}
    /\ db.so[last.name].docstatus = 1

\* C11 as stated: every run of the handler for a submitted order X leaves
\* exactly one template named Template-X, and a run that finds the template
\* creates no Task and no template.
C11_ExactlyOneTemplateAfterEveryRun ==
    HandlerRanOnSubmitted =>
        /\ Cardinality(TemplatesNamed(db, last.name)) = 1
        /\ TemplatesNamed(prev, last.name) # {} =>
              db.tasks = prev.tasks /\ db.templates = prev.templates

\* C11, amended: every run of the handler for a submitted order X that has
\* at least one line item leaves exactly one template named Template-X (an
\* order without line items has at most one), and a run that finds the
\* template creates no Task and no template.
C11_TemplateCreationIdempotent ==
    HandlerRanOnSubmitted =>
        /\ Cardinality(TemplatesNamed(db, last.name)) <= 1
        /\ db.so[last.name].items # << >> =>
              Cardinality(TemplatesNamed(db, last.name)) = 1
        /\ TemplatesNamed(prev, last.name) # {} =>
              db.tasks = prev.tasks /\ db.templates = prev.templates

\* A later run: the handler is triggered again for a submitted order whose
\* template and Tasks an earlier run made.
C11_Witness ==
    /\ last.op = "create_project_template"
    /\ db.so[last.name].docstatus = 1
    /\ Len(db.so[last.name].items) >= 2
    /\ \E t \in TemplatesNamed(prev, last.name) :
          /\ Len(t.tasks) = Len(db.so[last.name].items)
          /\ \A k \in 1..Len(t.tasks) : \E x \in prev.tasks : x.name = t.tasks[k].task

\* The subject the spec gives a line item's Task.
ExpectedSubject(item) ==
    CASE item.item_name # "" -> item.item_name
      [] item.item_name = "" /\ item.description # "" -> item.description
      [] OTHER -> item.item_code

\* C12: a run for a submitted order with n >= 1 line items and no template
\* creates exactly n Tasks and one template whose k-th row names the Task
\* made from the k-th line item, with the item name, else the description,
\* else the item code as subject; a run for an order without line items or
\* with docstatus other than 1 creates no Task and no template.
C12_TemplateMirrorsLineItems ==
    last.op \in {"submit_order", "create_project_template"} =>
        LET o == last.name
            items == db.so[o].items
            n == Len(items)
            newTasks == db.tasks \ prev.tasks
            newTemplates == db.templates \ prev.templates
        IN  /\ prev.tasks \subseteq db.tasks
            /\ prev.templates \subseteq db.templates
            /\ (db.so[o].docstatus = 1 /\ n >= 1 /\ TemplatesNamed(prev, o) = {}) =>
                  /\ Cardinality(newTasks) = n
                  /\ Cardinality(newTemplates) = 1
                  /\ \A t \in newTemplates :
                        /\ t.name = TemplateName(o)
                        /\ Len(t.tasks) = n
                        /\ \A k \in 1..n :
                              /\ t.tasks[k].subject = ExpectedSubject(items[k])
                              /\ \E x \in newTasks :
                                    /\ x.name = t.tasks[k].task
                                    /\ x.subject = ExpectedSubject(items[k])
                        /\ \A j, k \in 1..n : j # k => t.tasks[j].task # t.tasks[k].task
            /\ (db.so[o].docstatus # 1 \/ n = 0) =>
                  newTasks = {} /\ newTemplates = {}

\* A first run for a submitted order with two line items, one of them without
\* an item name.
C12_Witness ==
    /\ last.op \in {"submit_order", "create_project_template"}
    /\ db.so[last.name].docstatus = 1
    /\ Len(db.so[last.name].items) >= 2
    /\ \E k \in 1..Len(db.so[last.name].items) :
          /\ db.so[last.name].items[k].item_name = ""
          /\ db.so[last.name].items[k].description # ""
    /\ TemplatesNamed(prev, last.name) = {}
    /\ Cardinality(db.tasks \ prev.tasks) = Len(db.so[last.name].items)

\* A run for a submitted order without line items.
C12_NoItemsWitness ==
    /\ last.op \in {"submit_order", "create_project_template"}
    /\ db.so[last.name].docstatus = 1
    /\ db.so[last.name].items = << >>
    /\ TemplatesNamed(prev, last.name) = {}

-----------------------------------------------------------------------------
(* Accounts *)

\* The trimmed, lower-cased spelling of an email.
Normalized(e) == Email(e.addr, FALSE, FALSE, e.wellformed)

LeadsFor(d, e) == {l \in d.lead : l.email_id = Normalized(e)}

UsersFor(d, e) == {u \in d.user : u.name = Normalized(e)}

DuplicateEmailErrors ==
    {"A lead with this email already exists", "A user with this email already exists"}

\* The call's other fields would pass validation.
OtherwiseValid(data) ==
    data.full_name # "" /\ data.phone # "" /\ Len(data.password) >= 6

\* C13 as stated: a successful create_account leaves exactly one Lead and one
\* Account for the normalized email, and every later call whose email
\* normalizes to the same value fails with a duplicate-email error and
\* creates nothing.
C13_EveryLaterCallFailsAsDuplicate ==
    last.op = "create_customer" =>
        /\ last.response.success =>
              /\ Cardinality(LeadsFor(db, last.input.email)) = 1
              /\ Cardinality(UsersFor(db, last.input.email)) = 1
        /\ (LeadsFor(prev, last.input.email) # {} /\ UsersFor(prev, last.input.email) # {}) =>
              /\ ~last.response.success
              /\ last.response.error \in DuplicateEmailErrors
              /\ db.lead = prev.lead /\ db.user = prev.user

\* C13, amended: a successful create_account leaves exactly one Lead and one
\* Account for the normalized email; every later call whose email normalizes
\* to the same value fails and creates nothing, with a duplicate-email error
\* when its other fields are valid (a missing field or a short password is
\* reported first).
C13_OneLeadOneAccountPerEmail ==
    last.op = "create_customer" =>
        /\ last.response.success =>
              /\ Cardinality(LeadsFor(db, last.input.email)) = 1
              /\ Cardinality(UsersFor(db, last.input.email)) = 1
        /\ (LeadsFor(prev, last.input.email) # {} /\ UsersFor(prev, last.input.email) # {}) =>
              /\ ~last.response.success
              /\ OtherwiseValid(last.input) =>
                    last.response.error \in DuplicateEmailErrors
              /\ db.lead = prev.lead /\ db.user = prev.user

\* A later call spells the registered email in upper case and is refused as
\* a duplicate.
C13_Witness ==
    /\ last.op = "create_customer"
    /\ last.input.email.upper
    /\ OtherwiseValid(last.input)
    /\ LeadsFor(prev, last.input.email) # {}
    /\ UsersFor(prev, last.input.email) # {}
    /\ last.response.error \in DuplicateEmailErrors

\* C14: a create_account call that fails (the Account insert failing after
\* the Lead insert included) returns success=false and leaves no Lead and no
\* Account behind; between calls every Lead has its Account.
C14_CreateAccountAllOrNothing ==
    /\ \A l \in db.lead : \E u \in db.user : u.name = l.email_id
    /\ last.op = "create_customer" =>
          /\ last.fault = "user_insert" /\ LeadsFor(prev, last.input.email) = {} =>
                /\ ~last.response.success
                /\ LeadsFor(db, last.input.email) = {}
          /\ ~last.response.success => db.lead = prev.lead /\ db.user = prev.user

\* The Account insert failed after the Lead of a valid registration was
\* inserted.
C14_Witness ==
    /\ last.op = "create_customer"
    /\ last.fault = "user_insert"
    /\ last.response = Fail("Failed to create account")
    /\ LeadsFor(prev, last.input.email) = {}
    /\ prev.lead # {}

-----------------------------------------------------------------------------
(* Sign-in and password reset *)

Holders(d, key) == {u \in d.user : u.reset_password_key = key}

\* A key that was issued and is on no account is on no account afterwards.
SpentKeysStaySpent ==
    \A k \in 1..prev.issued : Holders(prev, k) = {} => Holders(db, k) = {}

\* Redeeming a stored key with a password of length >= 6 succeeds, sets the
\* password and clears the key (when the store does not fail).
FirstRedeemSucceeds ==
    (/\ last.op = "reset_password"
     /\ last.fault = ""
     /\ Holders(prev, last.input.key) # {}
     /\ last.input.key # None
     /\ Len(last.input.new_password) >= 6) =>
        /\ last.response.success
        /\ Holders(db, last.input.key) = {}
        /\ \A u \in Holders(prev, last.input.key) : \E v \in db.user :
              /\ v.name = u.name
              /\ v.password = last.input.new_password
              /\ v.reset_password_key = None

\* The last operation redeemed a key that had changed a password before.
LaterRedeem ==
    /\ last.op = "reset_password"
    /\ last.input.key \in prev.redeemed

\* C15 as stated: the first redeem of a stored key with a password of length
\* >= 6 succeeds, changes the credential and clears the key; every later
\* redeem with the same key fails with the invalid-token error and changes no
\* credential.
C15_EveryLaterRedeemIsInvalidToken ==
    /\ SpentKeysStaySpent
    /\ FirstRedeemSucceeds
    /\ LaterRedeem => last.response = InvalidResetLink /\ db.user = prev.user

\* C15, amended: the first redeem of a stored key with a password of length
\* >= 6 succeeds, changes the credential and clears the key; every later
\* redeem with the same key fails and changes no credential, with the
\* invalid-token error when the password it carries has length >= 6.
C15_ResetKeySingleUse ==
    /\ SpentKeysStaySpent
    /\ FirstRedeemSucceeds
    /\ LaterRedeem =>
          /\ ~last.response.success
          /\ db.user = prev.user
          /\ Len(last.input.new_password) >= 6 => last.response = InvalidResetLink

\* A key that changed a password to "secret2" is redeemed a second time.
C15_Witness ==
    /\ LaterRedeem
    /\ Len(last.input.new_password) >= 6
    /\ \E u \in prev.user : u.password = "secret2" /\ u.reset_password_key = None
    /\ last.response = InvalidResetLink

\* C16: for a well-formed email, forgot_password answers the same whether no
\* account or an enabled account has the email, and without an account it
\* stores no key and sends no mail.
C16_ResetRequestHidesRegistration ==
    (/\ last.op = "forgot_password"
     /\ last.input.email.addr # 0
     /\ last.input.email.wellformed) =>
        /\ (\A u \in UsersFor(prev, last.input.email) : u.enabled) =>
              last.response = GenericResetResponse
        /\ UsersFor(prev, last.input.email) = {} => db = prev

\* C17: a login whose password does not match gets the generic failure
\* whether or not an account has the email, and the account-disabled failure
\* is returned only for an existing disabled account.
C17_LoginHidesAccountExistence ==
    (/\ last.op = "login_customer"
     /\ last.input.email.addr # 0
     /\ last.input.password # "") =>
        /\ (\A u \in UsersFor(prev, last.input.email) : u.password # last.input.password) =>
              last.response = InvalidLogin
        /\ last.response = AccountDisabled =>
              \E u \in UsersFor(prev, last.input.email) : ~u.enabled

-----------------------------------------------------------------------------
(* Bookings *)

\* C18: whenever create_service_booking returns success=false, no Customer,
\* Address or Order written during the call remains in the store.
C18_FailedBookingLeavesNothing ==
    (last.op = "create_service_booking" /\ ~last.response.success) =>
        /\ db.customer = prev.customer
        /\ db.address = prev.address
        /\ db.so = prev.so

NewOrders == {x \in DOMAIN db.so : db.so[x].exists /\ ~prev.so[x].exists}

\* The stay of a request, counted in whole days from the date strings.
RequestedStay(data) ==
    CASE data.from_date = data.to_date -> 1
      [] data.from_date = "2025-11-22" /\ data.to_date = "2025-11-24" -> 3

\* C19: a successful create_service_booking adds exactly one order, a draft,
\* with one line per requested item code in request order and the stay
\* length as quantity; every other order is untouched.
C19_BookingAddsOneDraftOrder ==
    (last.op = "create_service_booking" /\ last.response.success) =>
        /\ Cardinality(NewOrders) = 1
        /\ \A x \in DOMAIN db.so : x \notin NewOrders => db.so[x] = prev.so[x]
        /\ \A x \in NewOrders :
              /\ x = last.response.sales_order
              /\ db.so[x].docstatus = 0
              /\ Len(db.so[x].items) = Len(last.input.item_codes)
              /\ \A k \in 1..Len(last.input.item_codes) :
                    /\ db.so[x].items[k].item_code = last.input.item_codes[k]
                    /\ db.so[x].items[k].qty = RequestedStay(last.input)

\* A booking of two different services for three days succeeded.
C19_Witness ==
    /\ last.op = "create_service_booking"
    /\ last.response.success
    /\ last.input.item_codes = <<"MEAL", "ROOM">>
    /\ last.input.to_date = "2025-11-24"
    /\ last.input.number_of_people = 2
    /\ NewOrders # {}

DaysIn(y, m) ==
    IF m = 2 THEN (IF y % 4 = 0 /\ (y % 100 # 0 \/ y % 400 = 0) THEN 29 ELSE 28)
    ELSE IF m \in {4, 6, 9, 11} THEN 30 ELSE 31

\* ISO order of calendar dates.
DateKey(dt) == dt.y * 10000 + dt.m * 100 + dt.d

\* The calendar days from one date up to, not including, a later one.
NightsBetween(from, to) ==
    Cardinality({dt \in [y : 2024..2025, m : 1..12, d : 1..31] :
                    /\ dt.d <= DaysIn(dt.y, dt.m)
                    /\ DateKey(from) <= DateKey(dt)
                    /\ DateKey(dt) < DateKey(to)})

\* The calendar date a date string spells.
Spelled(s) == CHOOSE dt \in [y : 2024..2025, m : 1..12, d : 1..31] :
    \/ s = "2024-02-28" /\ dt = [y |-> 2024, m |-> 2, d |-> 28]
    \/ s = "2024-03-01" /\ dt = [y |-> 2024, m |-> 3, d |-> 1]
    \/ s = "2024-12-31" /\ dt = [y |-> 2024, m |-> 12, d |-> 31]
    \/ s = "2025-01-01" /\ dt = [y |-> 2025, m |-> 1, d |-> 1]
    \/ s = "2025-02-28" /\ dt = [y |-> 2025, m |-> 2, d |-> 28]
    \/ s = "2025-03-01" /\ dt = [y |-> 2025, m |-> 3, d |-> 1]
    \/ s = "2025-11-22" /\ dt = [y |-> 2025, m |-> 11, d |-> 22]
    \/ s = "2025-11-24" /\ dt = [y |-> 2025, m |-> 11, d |-> 24]

\* from is an earlier date than to, by the ISO spelling (year, month, day).
Earlier(from, to) ==
    DateKey(Spelled(from)) < DateKey(Spelled(to))

\* C20: for to_date >= from_date the stay length is the number of days from
\* from_date to to_date plus one, at least 1 (3 for 2025-11-22..2025-11-24,
\* 1 for from = to), and it is the quantity of every booked line; for
\* to_date < from_date the call fails validation and writes nothing.
C20_StayLengthInclusive ==
    (/\ last.op = "create_service_booking"
     /\ last.input.item_codes # << >>
     /\ last.input.number_of_people # 0
     /\ last.input.from_date \in DateStrings
     /\ last.input.to_date \in DateStrings) =>
        IF Earlier(last.input.to_date, last.input.from_date)
        THEN /\ last.response = Fail("To Date must be after or equal to From Date")
             /\ db = prev
        ELSE /\ last.days = NightsBetween(Spelled(last.input.from_date),
                                          Spelled(last.input.to_date)) + 1
             /\ last.days >= 1
             /\ last.input.from_date = last.input.to_date => last.days = 1
             /\ (last.input.from_date = "2025-11-22" /\ last.input.to_date = "2025-11-24") =>
                   last.days = 3
             /\ \A x \in NewOrders : \A k \in 1..Len(db.so[x].items) :
                   db.so[x].items[k].qty = last.days

\* A stay across the leap day of 2024 was booked.
C20_Witness ==
    /\ last.op = "create_service_booking"
    /\ last.input.from_date = "2024-02-28"
    /\ last.input.to_date = "2024-03-01"
    /\ last.response.success
    /\ last.days = 3

\* A booking whose to_date is before its from_date was refused.
C20_RefusedWitness ==
    /\ last.op = "create_service_booking"
    /\ last.input.from_date = "2025-11-24"
    /\ last.input.to_date = "2025-11-22"
    /\ ~last.response.success

-----------------------------------------------------------------------------
(* Links: failures and frame *)

\* C23: submitting an onboarding whose reference_name names an order that
\* does not exist fails with the propagated DoesNotExistError; afterwards
\* the onboarding is still a draft that is not Onboarded, and no order has
\* changed docstatus.
C23_SubmitWithMissingOrderFails ==
    (/\ last.op = "submit_onboarding"
     /\ prev.go[last.name].reference_name # None
     /\ ~Exists(prev.so, prev.go[last.name].reference_name)) =>
        /\ last.err = "DoesNotExistError"
        /\ db.go[last.name].status # "Onboarded"
        /\ db.go[last.name].docstatus = 0
        /\ \A o \in DOMAIN db.so : db.so[o].docstatus = prev.so[o].docstatus

\* A draft onboarding that names an absent order was submitted, while
\* another order exists.
C23_Witness ==
    /\ last.op = "submit_onboarding"
    /\ prev.go[last.name].reference_name # None
    /\ ~Exists(prev.so, prev.go[last.name].reference_name)
    /\ \E o \in DOMAIN db.so : db.so[o].exists
    /\ last.err = "DoesNotExistError"

\* C24: cancelling an onboarding changes link fields only: every order keeps
\* its docstatus, customer and line items (so each customer's active orders
\* are the same), the cancel is never refused by the single-order guard, and
\* no Task or template is created or removed; the onboardings keep all but
\* their link fields and the cancelled one's docstatus.
C24_OnboardingCancelChangesOnlyLinks ==
    last.op = "cancel_onboarding" =>
        /\ last.err = "" /\ last.conflict = None
        /\ db.go[last.name].docstatus = 2
        /\ \A o \in DOMAIN db.so :
              db.so[o] = [prev.so[o] EXCEPT !.custom_guest_onboarding_id =
                                               db.so[o].custom_guest_onboarding_id]
        /\ \A o \in DOMAIN db.so :
              ActiveOrders(db, prev.so[o].customer) = ActiveOrders(prev, prev.so[o].customer)
        /\ db.tasks = prev.tasks
        /\ db.templates = prev.templates
        /\ \A g \in DOMAIN db.go :
              db.go[g] = [prev.go[g] EXCEPT !.reference_name = db.go[g].reference_name,
                                            !.reference_doctype = db.go[g].reference_doctype,
                                            !.docstatus = IF g = last.name THEN 2 ELSE @]

\* An onboarding linked both ways to a submitted order was cancelled and the
\* order, still submitted, lost its back-reference.
C24_Witness ==
    /\ last.op = "cancel_onboarding"
    /\ \E o \in DOMAIN db.so :
          /\ prev.go[last.name].reference_name = o
          /\ prev.go[last.name].reference_doctype = "Sales Order"
          /\ prev.so[o].custom_guest_onboarding_id = last.name
          /\ prev.so[o].docstatus = 1
          /\ db.so[o].docstatus = 1
          /\ db.so[o].custom_guest_onboarding_id = None
          /\ prev.templates # {}

\* C25 as stated: after an order is cancelled no onboarding has reference_name
\* equal to that order, whatever the order's custom_guest_onboarding_id was.
C25_NoOnboardingReferencesCancelledOrder ==
    last.op = "cancel_order" =>
        \A h \in DOMAIN db.go : db.go[h].exists => db.go[h].reference_name # last.name

\* C26: cancelling an onboarding never clears the custom_guest_onboarding_id
\* of an order that names a different onboarding, and cancelling an order
\* never clears the reference_name of an onboarding that references a
\* different order.
C26_CancelBreaksOnlyItsOwnLink ==
    /\ last.op = "cancel_onboarding" =>
          \A o \in DOMAIN db.so :
              prev.so[o].custom_guest_onboarding_id \notin {None, last.name} =>
                  db.so[o].custom_guest_onboarding_id = prev.so[o].custom_guest_onboarding_id
    /\ last.op = "cancel_order" =>
          \A h \in DOMAIN db.go :
              prev.go[h].reference_name \notin {None, last.name} =>
                  db.go[h].reference_name = prev.go[h].reference_name

\* C27: when the record on the other side of the link does not exist, the
\* cancel of an order or of an onboarding still completes without an error,
\* and the cancelled record's own link field is empty afterwards.
C27_CancelWithMissingOtherSideClearsOwnLink ==
    /\ (/\ last.op = "cancel_order"
        /\ prev.so[last.name].custom_guest_onboarding_id # None
        /\ ~Exists(prev.go, prev.so[last.name].custom_guest_onboarding_id)) =>
            /\ last.err = ""
            /\ db.so[last.name].docstatus = 2
            /\ db.so[last.name].custom_guest_onboarding_id = None
    /\ (/\ last.op = "cancel_onboarding"
        /\ prev.go[last.name].reference_name # None
        /\ prev.go[last.name].reference_doctype = "Sales Order"
        /\ ~Exists(prev.so, prev.go[last.name].reference_name)) =>
            /\ last.err = ""
            /\ db.go[last.name].docstatus = 2
            /\ db.go[last.name].reference_name = None

-----------------------------------------------------------------------------
(* Password reset: one redeemable key per account *)

\* The key was issued, is on no account and never changed a password: a later
\* forgot_password for the same account replaced it.
Superseded(d, key) ==
    /\ key \in 1..d.issued
    /\ Holders(d, key) = {}
    /\ key \notin d.redeemed

\* A forgot_password that issues a key leaves the new key on the account and
\* the account's earlier key on no account.
NewKeyReplacesOld ==
    (last.op = "forgot_password" /\ db.issued # prev.issued) =>
        \A u \in prev.user : u.name = Normalized(last.input.email) =>
            /\ \E v \in db.user : v.name = u.name /\ v.reset_password_key = db.issued
            /\ u.reset_password_key # None => Holders(db, u.reset_password_key) = {}

-----------------------------------------------------------------------------
(* Registrations at once *)

Finished(r) == req[r].pc \in {"done", "failed"}

\* Two requests for one normalized email that both got past the checks.
Raced(a, b) ==
    /\ a # b
    /\ req[a].passed /\ req[b].passed
    /\ Normalized(req[a].data.email) = Normalized(req[b].data.email)

\* C22: when two create_customer calls for the same normalized email both
\* pass the existence checks, the losing User insert is rejected: not both
\* return success, a call that has finished without success has returned a
\* failure, and when both have finished there is exactly one User and
\* exactly one Lead for the email.  At no time are two Users or two Leads
\* committed for one email.
C22_RacingRegistrationsLeaveOneAccount ==
    /\ \A r \in DOMAIN req :
          /\ Cardinality(UsersFor(db, req[r].data.email)) <= 1
          /\ Cardinality(LeadsFor(db, req[r].data.email)) <= 1
    /\ \A a \in DOMAIN req : \A b \in DOMAIN req :
          Raced(a, b) =>
              /\ ~(req[a].pc = "done" /\ req[b].pc = "done")
              /\ (Finished(a) /\ Finished(b)) =>
                    /\ \A r \in {a, b} :
                          IF req[r].pc = "done"
                          THEN req[r].response = Ok("Account created successfully")
                          ELSE ~req[r].response.success /\ req[r].tx = NoWrites
                    /\ Cardinality(UsersFor(db, req[a].data.email)) = 1
                    /\ Cardinality(LeadsFor(db, req[a].data.email)) = 1

\* Two requests for one email written in different spellings both passed the
\* checks; one created the account and the other was refused at the User
\* insert.
C22_Witness ==
    \E a \in DOMAIN req : \E b \in DOMAIN req :
        /\ Raced(a, b) /\ Finished(a) /\ Finished(b)
        /\ req[a].data.email # req[b].data.email
        /\ req[a].response = Ok("Account created successfully")
        /\ req[b].response = Fail("Failed to create account")
        /\ last.op = "create_customer" /\ last.name = b

-----------------------------------------------------------------------------
(* Failures inside an endpoint *)

\* The last call ran into the failure its fault names: the mail server
\* refused the reset mail of an enabled account, or update_password failed
\* for a stored key and an acceptable password.
FailureHit ==
    \/ /\ last.op = "forgot_password"
       /\ last.fault = "sendmail"
       /\ \E u \in prev.user : u.name = Normalized(last.input.email) /\ u.enabled
    \/ /\ last.op = "reset_password"
       /\ last.fault = "update_password"
       /\ last.input.key # None
       /\ Len(last.input.new_password) >= 6
       /\ Holders(prev, last.input.key) # {}

\* C21: an endpoint turns every internal failure into a returned
\* {success: false, error} value after rolling back its own writes; no
\* failure leaves it as a raised error.
C21_FailuresReturnedAfterRollback ==
    FailureHit =>
        /\ DOMAIN last.response = {"success", "error"}
        /\ ~last.response.success
        /\ db.user = prev.user
        /\ db.outbox = prev.outbox

====
